---- MODULE Spec2Model ----
(***************************************************************************)
(* A model of the TRP client of tx3-lang/go-sdk (sdk/trp/trp.go): the      *)
(* WitnessInput JSON codec, the JSON-RPC call over HTTP, and the two       *)
(* domain operations Resolve and Submit, issued by one or several callers  *)
(* on one Client.                                                          *)
(*                                                                         *)
(* JSON documents are modelled as tagged values (kind = "string", "null",  *)
(* "number", "array", "object", or "invalid" for bytes that are not JSON); *)
(* Go values keep the distinctions encoding/json is sensitive to: a nil    *)
(* pointer, a nil slice, a nil map and a nil interface are not the same as *)
(* their empty counterparts.  Strings are valid text.                      *)
(***************************************************************************)
EXTENDS Integers, Sequences, FiniteSets, TLC

VARIABLES
    options,     \* Client.options, as given to NewClient
    timeout,     \* Client.httpClient.Timeout
    pc,          \* per caller: where its invocation stands
    arg,         \* per caller: the arguments of its Resolve or Submit
    params,      \* per caller: the params value handed to call
    req,         \* per caller: the *http.Request built by call
    net,         \* per caller: the HTTP exchange on the wire
    raw,         \* per caller: the raw result call returned
    ret,         \* per caller: what Resolve or Submit returned
    sent,        \* per caller: HTTP requests issued by the current invocation
    codec        \* a WitnessInput being marshalled and unmarshalled

vars == <<options, timeout, pc, arg, params, req, net, raw, ret, sent, codec>>

callVars == <<options, timeout, pc, arg, params, req, net, raw, ret, sent>>

----------------------------------------------------------------------------
(* JSON documents, as encoding/json reads and writes them.                 *)

JInvalid == [kind |-> "invalid"]

JNull == [kind |-> "null"]

JString(s) == [kind |-> "string", str |-> s]

JNumber(n) == [kind |-> "number", num |-> n]

JArray(e) == [kind |-> "array", elems |-> e]

JObject(f) == [kind |-> "object", fields |-> f]

\* The member `name` of a JSON object's fields; a missing member leaves a Go
\* struct field as a JSON null does: untouched.
Member(f, name) == IF name \in DOMAIN f THEN f[name] ELSE JNull

\* The nil error.
ErrNil == "<nil>"

\* json.Unmarshal(data, &h) for a Go string h holding prev.  A JSON null is
\* accepted and has no effect on a string.
UnmarshalString(data, prev) ==
    CASE data.kind = "string" -> [err |-> ErrNil, val |-> data.str]
      [] data.kind = "null"   -> [err |-> ErrNil, val |-> prev]
      [] data.kind = "invalid" -> [err |-> "json: syntax error", val |-> prev]
      [] OTHER -> [err |-> "json: cannot unmarshal into Go value of type string",
                   val |-> prev]

----------------------------------------------------------------------------
(* BytesEnvelope, SubmitWitness, WitnessInput.                             *)

NilPtr == [nil |-> TRUE]

Ptr(v) == [nil |-> FALSE, val |-> v]

ZeroBytesEnvelope == [Content |-> "", Encoding |-> ""]

ZeroSubmitWitness ==
    [Type |-> "", Key |-> ZeroBytesEnvelope, Signature |-> ZeroBytesEnvelope]

MarshalBytesEnvelope(b) ==
    JObject([content |-> JString(b.Content), encoding |-> JString(b.Encoding)])

MarshalSubmitWitness(s) ==
    JObject([type |-> JString(s.Type),
             key |-> MarshalBytesEnvelope(s.Key),
             signature |-> MarshalBytesEnvelope(s.Signature)])

\* json.Unmarshal into a BytesEnvelope holding prev.
UnmarshalBytesEnvelope(data, prev) ==
    CASE data.kind = "null" -> [err |-> ErrNil, val |-> prev]
      [] data.kind = "object" ->
            LET c == UnmarshalString(Member(data.fields, "content"), prev.Content)
                e == UnmarshalString(Member(data.fields, "encoding"), prev.Encoding)
            IN  [err |-> IF c.err # ErrNil THEN c.err ELSE e.err,
                 val |-> [Content |-> c.val, Encoding |-> e.val]]
      [] data.kind = "invalid" -> [err |-> "json: syntax error", val |-> prev]
      [] OTHER -> [err |-> "json: cannot unmarshal into Go value of type BytesEnvelope",
                   val |-> prev]

\* json.Unmarshal(data, &obj) for a SubmitWitness obj holding prev.
UnmarshalSubmitWitness(data, prev) ==
    CASE data.kind = "null" -> [err |-> ErrNil, val |-> prev]
      [] data.kind = "object" ->
            LET t == UnmarshalString(Member(data.fields, "type"), prev.Type)
                k == UnmarshalBytesEnvelope(Member(data.fields, "key"), prev.Key)
                s == UnmarshalBytesEnvelope(Member(data.fields, "signature"),
                                            prev.Signature)
            IN  [err |-> IF t.err # ErrNil THEN t.err
                         ELSE IF k.err # ErrNil THEN k.err ELSE s.err,
                 val |-> [Type |-> t.val, Key |-> k.val, Signature |-> s.val]]
      [] data.kind = "invalid" -> [err |-> "json: syntax error", val |-> prev]
      [] OTHER -> [err |-> "json: cannot unmarshal into Go value of type SubmitWitness",
                   val |-> prev]

\* WitnessInput.MarshalJSON
MarshalJSON(w) ==
    IF ~w.Object.nil
    THEN MarshalSubmitWitness(w.Object.val)
    ELSE JString(w.Hex)

\* A slip of UnmarshalJSON: the variant that was not decoded is left as the
\* receiver held it.
UnmarshalJSONKeepsOther(w, data) ==
    LET h == UnmarshalString(data, "") IN
    IF h.err = ErrNil
    THEN [err |-> ErrNil, w |-> [Object |-> w.Object, Hex |-> h.val],
          triedObject |-> FALSE]
    ELSE LET obj == UnmarshalSubmitWitness(data, ZeroSubmitWitness) IN
         IF obj.err = ErrNil
         THEN [err |-> ErrNil, w |-> [Object |-> Ptr(obj.val), Hex |-> w.Hex],
               triedObject |-> TRUE]
         ELSE [err |-> "data is neither string nor SubmitWitness", w |-> w,
               triedObject |-> TRUE]

\* WitnessInput.UnmarshalJSON on the receiver w; triedObject records whether
\* the second json.Unmarshal ran.
UnmarshalJSON(w, data) ==
    LET h == UnmarshalString(data, "") IN
    IF h.err = ErrNil
    THEN [err |-> ErrNil, w |-> [Object |-> NilPtr, Hex |-> h.val],
          triedObject |-> FALSE]
    ELSE LET obj == UnmarshalSubmitWitness(data, ZeroSubmitWitness) IN
         IF obj.err = ErrNil
         THEN [err |-> ErrNil, w |-> [Object |-> Ptr(obj.val), Hex |-> ""],
               triedObject |-> TRUE]
         ELSE [err |-> "data is neither string nor SubmitWitness", w |-> w,
               triedObject |-> TRUE]

----------------------------------------------------------------------------
(* The WitnessInput codec on its own: a value is marshalled, or a document  *)
(* arrives from the wire, and is unmarshalled into a receiver that already  *)
(* holds a value.                                                           *)

VKeyWitness1 ==
    [Type |-> "vkey",
     Key |-> [Content |-> "aa", Encoding |-> "hex"],
     Signature |-> [Content |-> "YmI=", Encoding |-> "base64"]]

ObjectText == "{\"type\":\"vkey\"}"

\* WitnessInput values a caller can build, the last with both fields set.
WitnessInputs ==
    { [Object |-> NilPtr, Hex |-> "ff00"],
      [Object |-> NilPtr, Hex |-> ""],
      [Object |-> NilPtr, Hex |-> ObjectText],
      [Object |-> Ptr(VKeyWitness1), Hex |-> ""],
      [Object |-> Ptr(ZeroSubmitWitness), Hex |-> ""],
      [Object |-> Ptr(VKeyWitness1), Hex |-> "ff00"] }

\* Documents a peer can send where a witness is expected.
WitnessDocs ==
    { JString("ff00"), JString(""), JString(ObjectText),
      JNull, JNumber(7), JInvalid,
      JArray(<<>>), JArray(<<JString("ff00")>>),
      MarshalSubmitWitness(VKeyWitness1),
      JObject(<<>>),
      JObject([type |-> JString("vkey")]),
      JObject([type |-> JNumber(1)]),
      JObject([type |-> JString("vkey"), key |-> JString("aa")]),
      JObject([type |-> JNull, key |-> JNull]),
      JObject([extra |-> JNumber(1)]) }

CodecIdle ==
    [stage |-> "init", wit |-> [Object |-> NilPtr, Hex |-> ""],
     prior |-> [Object |-> NilPtr, Hex |-> ""],
     recv |-> [Object |-> NilPtr, Hex |-> ""],
     data |-> JInvalid, fromMarshal |-> FALSE,
     err |-> ErrNil, triedObject |-> FALSE]

\* json.Marshal(wit)
EncodeWitness ==
    /\ codec.stage = "init"
    /\ codec' = [codec EXCEPT !.stage = "encoded",
                              !.data = MarshalJSON(codec.wit),
                              !.fromMarshal = TRUE]
    /\ UNCHANGED callVars

\* A document arrives from a peer instead.
ReceiveWitness ==
    /\ codec.stage = "init"
    /\ \E d \in WitnessDocs :
          codec' = [codec EXCEPT !.stage = "encoded", !.data = d,
                                 !.fromMarshal = FALSE]
    /\ UNCHANGED callVars

\* json.Unmarshal(data, &recv)
DecodeWitness ==
    /\ codec.stage = "encoded"
    /\ LET r == UnmarshalJSON(codec.recv, codec.data) IN
          codec' = [codec EXCEPT !.stage = "decoded", !.recv = r.w,
                                 !.err = r.err, !.triedObject = r.triedObject]
    /\ UNCHANGED callVars

----------------------------------------------------------------------------
(* Go values the client marshals: interface{} values, maps and slices.      *)

\* The nil interface{}.
GoNil == [go |-> "nil"]

\* A generated parameter struct with integer fields, held in an interface{}.
GoStruct(f) == [go |-> "struct", fields |-> f]

\* A value encoding/json cannot marshal (a channel), held in an interface{}.
GoChan == [go |-> "chan"]

\* A map[string]interface{} with string values, held in an interface{}.
GoMap(m) == [go |-> "map", m |-> m]

\* A value decoded from JSON into an interface{}.
GoJSON(d) == [go |-> "json", val |-> d]

NilMap == [nil |-> TRUE, m |-> <<>>]

MapOf(f) == [nil |-> FALSE, m |-> f]

\* len(m) of a Go map; 0 for the nil map.
LenMap(x) == Cardinality(DOMAIN x.m)

NilSlice == [nil |-> TRUE, elems |-> <<>>]

SliceOf(e) == [nil |-> FALSE, elems |-> e]

\* json.Marshal of an interface{} value.
MarshalAny(v) ==
    CASE v.go = "nil" -> [err |-> ErrNil, json |-> JNull]
      [] v.go = "struct" ->
            [err |-> ErrNil,
             json |-> JObject([k \in DOMAIN v.fields |-> JNumber(v.fields[k])])]
      [] v.go = "map" ->
            [err |-> ErrNil,
             json |-> JObject([k \in DOMAIN v.m |-> JString(v.m[k])])]
      [] OTHER -> [err |-> "json: unsupported type: chan int", json |-> JInvalid]

MarshalTirInfo(t) ==
    JObject([version |-> JString(t.Version),
             content |-> JString(t.Content),
             encoding |-> JString(t.Encoding)])

\* json.Marshal of a jsonRPCParams: env carries omitempty, and an interface{}
\* field is empty only when it is the nil interface.
MarshalJSONRPCParams(p) ==
    LET a == MarshalAny(p.Args)
        e == MarshalAny(p.Env)
    IN  [err |-> IF a.err # ErrNil THEN a.err ELSE e.err,
         json |-> IF p.Env = GoNil
                  THEN JObject([tir |-> MarshalTirInfo(p.Tir), args |-> a.json])
                  ELSE JObject([tir |-> MarshalTirInfo(p.Tir), args |-> a.json,
                                env |-> e.json])]

\* json.Marshal of a []WitnessInput: a nil slice is written as null, any
\* other as an array of the elements' MarshalJSON.
MarshalWitnesses(ws) ==
    IF ws.nil
    THEN JNull
    ELSE JArray([k \in 1..Len(ws.elems) |-> MarshalJSON(ws.elems[k])])

MarshalSubmitParams(p) ==
    [err |-> ErrNil,
     json |-> JObject([tx |-> MarshalBytesEnvelope(p.Tx),
                       witnesses |-> MarshalWitnesses(p.Witnesses)])]

\* json.Marshal of the params interface{} of a jsonRPCRequest, by dynamic type.
MarshalParams(p) ==
    IF p.type = "jsonRPCParams"
    THEN MarshalJSONRPCParams(p)
    ELSE MarshalSubmitParams(p)

\* json.Marshal(rpcRequest)
MarshalJSONRPCRequest(r) ==
    LET p == MarshalParams(r.Params) IN
    [err |-> p.err,
     json |-> JObject([jsonrpc |-> JString(r.JSONRPC),
                       method |-> JString(r.Method),
                       params |-> p.json,
                       id |-> JString(r.ID)])]

----------------------------------------------------------------------------
(* Decoding the JSON-RPC response.                                          *)

\* A json.RawMessage: nil, or the bytes of one JSON value.
NilRaw == [nil |-> TRUE]

RawOf(d) == [nil |-> FALSE, doc |-> d]

\* json.Unmarshal into an int holding prev.
UnmarshalInt(data, prev) ==
    CASE data.kind = "number" -> [err |-> ErrNil, val |-> data.num]
      [] data.kind = "null"   -> [err |-> ErrNil, val |-> prev]
      [] OTHER -> [err |-> "json: cannot unmarshal into Go value of type int",
                   val |-> prev]

\* json.Unmarshal into an interface{}: null gives the nil interface.
UnmarshalAny(data) ==
    IF data.kind = "null" THEN GoNil ELSE GoJSON(data)

\* json.Unmarshal into the *jsonRPCError field, nil before.
UnmarshalJSONRPCError(data) ==
    CASE data.kind = "null" -> [err |-> ErrNil, val |-> NilPtr]
      [] data.kind = "object" ->
            LET c == UnmarshalInt(Member(data.fields, "code"), 0)
                m == UnmarshalString(Member(data.fields, "message"), "")
            IN  [err |-> IF c.err # ErrNil THEN c.err ELSE m.err,
                 val |-> Ptr([Code |-> c.val, Message |-> m.val,
                              Data |-> UnmarshalAny(Member(data.fields, "data"))])]
      [] OTHER -> [err |-> "json: cannot unmarshal into Go value of type jsonRPCError",
                   val |-> NilPtr]

ZeroJSONRPCResponse ==
    [JSONRPC |-> "", Result |-> NilRaw, Error |-> NilPtr, ID |-> ""]

\* json.Unmarshal(respBody, &rpcResponse)
UnmarshalJSONRPCResponse(body) ==
    CASE body.kind = "null" -> [err |-> ErrNil, val |-> ZeroJSONRPCResponse]
      [] body.kind = "object" ->
            LET v == UnmarshalString(Member(body.fields, "jsonrpc"), "")
                e == UnmarshalJSONRPCError(Member(body.fields, "error"))
                d == UnmarshalString(Member(body.fields, "id"), "")
            IN  [err |-> IF v.err # ErrNil THEN v.err
                         ELSE IF e.err # ErrNil THEN e.err ELSE d.err,
                 val |-> [JSONRPC |-> v.val,
                          Result |-> IF "result" \in DOMAIN body.fields
                                     THEN RawOf(body.fields.result)
                                     ELSE NilRaw,
                          Error |-> e.val,
                          ID |-> d.val]]
      [] body.kind = "invalid" ->
            [err |-> "json: syntax error", val |-> ZeroJSONRPCResponse]
      [] OTHER -> [err |-> "json: cannot unmarshal into Go value of type jsonRPCResponse",
                   val |-> ZeroJSONRPCResponse]

ZeroTxEnvelope == [Tx |-> "", Hash |-> ""]

\* json.Unmarshal(resultRaw, &result) for a TxEnvelope
UnmarshalTxEnvelope(r) ==
    CASE r.nil -> [err |-> "unexpected end of JSON input", val |-> ZeroTxEnvelope]
      [] r.doc.kind = "null" -> [err |-> ErrNil, val |-> ZeroTxEnvelope]
      [] r.doc.kind = "object" ->
            LET t == UnmarshalString(Member(r.doc.fields, "tx"), "")
                h == UnmarshalString(Member(r.doc.fields, "hash"), "")
            IN  [err |-> IF t.err # ErrNil THEN t.err ELSE h.err,
                 val |-> [Tx |-> t.val, Hash |-> h.val]]
      [] OTHER -> [err |-> "json: cannot unmarshal into Go value of type TxEnvelope",
                   val |-> ZeroTxEnvelope]

ZeroSubmitResponse == [Hash |-> ""]

\* json.Unmarshal(resultRaw, &result) for a SubmitResponse
UnmarshalSubmitResponse(r) ==
    CASE r.nil -> [err |-> "unexpected end of JSON input", val |-> ZeroSubmitResponse]
      [] r.doc.kind = "null" -> [err |-> ErrNil, val |-> ZeroSubmitResponse]
      [] r.doc.kind = "object" ->
            LET h == UnmarshalString(Member(r.doc.fields, "hash"), "")
            IN  [err |-> h.err, val |-> [Hash |-> h.val]]
      [] OTHER -> [err |-> "json: cannot unmarshal into Go value of type SubmitResponse",
                   val |-> ZeroSubmitResponse]

----------------------------------------------------------------------------
(* Errors and return values.                                                *)

NilErr == [type |-> "nil"]

\* fmt.Errorf("<text>: %w", err)
Errorf(text, inner) == [type |-> "fmt", text |-> text, wrapped |-> inner]

\* fmt.Errorf("HTTP error %d: %s", resp.StatusCode, string(body))
HTTPError(status, body) ==
    [type |-> "fmt", text |-> "HTTP error", status |-> status, body |-> body]

\* &Error{Message: ..., Data: ...}: the fields the Error type has.
TrpError(message, data) ==
    [type |-> "*trp.Error", Message |-> message, Data |-> data]

\* (*Error).Error()
ErrorText(e) ==
    IF e.Data # GoNil THEN <<e.Message, ": ", e.Data>> ELSE <<e.Message>>

\* return nil, err
Fail(e) == [set |-> TRUE, value |-> NilPtr, err |-> e]

\* return &result, nil
Succeed(v) == [set |-> TRUE, value |-> Ptr(v), err |-> NilErr]

NoRet == [set |-> FALSE]

NoArg == [op |-> "none"]

NoParams == [method |-> "", value |-> [type |-> "none"]]

NoReq == [built |-> FALSE]

NetIdle == [state |-> "idle"]

----------------------------------------------------------------------------
(* The HTTP request.                                                        *)

StatusOK == 200

DefaultTimeout == 30

\* textproto.CanonicalMIMEHeaderKey, on the header names that occur here.
CanonicalMIMEHeaderKey(k) ==
    CASE k \in {"Content-Type", "content-type", "CONTENT-TYPE"} -> "Content-Type"
      [] k \in {"X-Api-Key", "x-api-key"} -> "X-Api-Key"
      [] OTHER -> k

\* http.Header.Set(key, value)
HeaderSet(h, key, value) ==
    LET c == CanonicalMIMEHeaderKey(key) IN
    [k \in DOMAIN h \cup {c} |-> IF k = c THEN value ELSE h[k]]

\* The orders in which a range over a map with key set S can visit its keys.
Orders(S) ==
    {o \in [1..Cardinality(S) -> S] : \A a, b \in DOMAIN o : o[a] = o[b] => a = b}

\* for key, value := range c.options.Headers { req.Header.Set(key, value) },
\* visiting the keys in the given order.
RECURSIVE RangeSet(_, _, _)
RangeSet(h, m, order) ==
    IF order = <<>>
    THEN h
    ELSE RangeSet(HeaderSet(h, Head(order), m[Head(order)]), m, Tail(order))

\* http.NewRequest fails on a URL that does not parse.
ValidURL(u) == u # ":bad"

\* A slip of call: the content type is set after the configured headers.
BuildRequestContentTypeLast(opts, body, order) ==
    [built |-> TRUE, method |-> "POST", url |-> opts.Endpoint,
     header |-> HeaderSet(RangeSet(<<>>, opts.Headers.m, order),
                          "Content-Type", "application/json"),
     body |-> body]

\* The request call builds: Content-Type first, then the configured headers.
BuildRequest(opts, body, order) ==
    [built |-> TRUE, method |-> "POST", url |-> opts.Endpoint,
     header |-> RangeSet([k \in {"Content-Type"} |-> "application/json"],
                         opts.Headers.m, order),
     body |-> body]

----------------------------------------------------------------------------
(* The params of the two operations, and the end of call.                   *)

\* A slip of Resolve: env is attached whenever the mapping is not nil.
ResolveParamsNilCheck(opts, protoTx) ==
    [type |-> "jsonRPCParams", Tir |-> protoTx.Tir, Args |-> protoTx.Args,
     Env |-> IF ~opts.EnvArgs.nil THEN GoMap(opts.EnvArgs.m) ELSE GoNil]

\* Resolve: the jsonRPCParams it builds.
ResolveParams(opts, protoTx) ==
    [type |-> "jsonRPCParams", Tir |-> protoTx.Tir, Args |-> protoTx.Args,
     Env |-> IF LenMap(opts.EnvArgs) > 0 THEN GoMap(opts.EnvArgs.m) ELSE GoNil]

\* Submit: the SubmitParams it builds.
SubmitParams(tx, witnesses) ==
    [type |-> "SubmitParams",
     Tx |-> [Content |-> tx.Tx, Encoding |-> "hex"],
     Witnesses |-> witnesses]

\* A slip of call: a result, when the response has one, wins over the error.
CallResultPrefersResult(resp) ==
    IF resp.StatusCode # StatusOK
    THEN [err |-> HTTPError(resp.StatusCode, resp.Body), result |-> NilRaw]
    ELSE IF resp.ReadErr
    THEN [err |-> Errorf("failed to read response", "unexpected EOF"),
          result |-> NilRaw]
    ELSE LET u == UnmarshalJSONRPCResponse(resp.Body) IN
         IF u.err # ErrNil
         THEN [err |-> Errorf("failed to unmarshal response", u.err),
               result |-> NilRaw]
         ELSE IF u.val.Error.nil \/ ~u.val.Result.nil
         THEN [err |-> NilErr, result |-> u.val.Result]
         ELSE [err |-> TrpError(u.val.Error.val.Message, u.val.Error.val.Data),
               result |-> NilRaw]

\* call, from the status check on: what it returns for the response resp,
\* whose Body is what io.ReadAll yields and ReadErr whether it also failed.
CallResult(resp) ==
    IF resp.StatusCode # StatusOK
    THEN [err |-> HTTPError(resp.StatusCode, resp.Body), result |-> NilRaw]
    ELSE IF resp.ReadErr
    THEN [err |-> Errorf("failed to read response", "unexpected EOF"),
          result |-> NilRaw]
    ELSE LET u == UnmarshalJSONRPCResponse(resp.Body) IN
         IF u.err # ErrNil
         THEN [err |-> Errorf("failed to unmarshal response", u.err),
               result |-> NilRaw]
         ELSE IF ~u.val.Error.nil
         THEN [err |-> TrpError(u.val.Error.val.Message, u.val.Error.val.Data),
               result |-> NilRaw]
         ELSE [err |-> NilErr, result |-> u.val.Result]

\* Resolve and Submit, after call returned resultRaw without error.
DecodeResult(op, resultRaw) ==
    LET u == IF op = "Resolve"
             THEN UnmarshalTxEnvelope(resultRaw)
             ELSE UnmarshalSubmitResponse(resultRaw)
    IN  IF u.err # ErrNil
        THEN Fail(Errorf("failed to unmarshal result", u.err))
        ELSE Succeed(u.val)

----------------------------------------------------------------------------
(* The callers' steps.  One caller runs Resolve or Submit to its end; with  *)
(* several callers the steps interleave.                                    *)

\* Resolve, up to its use of call: the params are built from the request
\* and the client's options.
Resolve(i, protoTxs) ==
    /\ pc[i] = "idle"
    /\ \E protoTx \in protoTxs :
          /\ arg' = [arg EXCEPT ![i] = [op |-> "Resolve", protoTx |-> protoTx]]
          /\ params' = [params EXCEPT ![i] =
                           [method |-> "trp.resolve",
                            value |-> ResolveParams(options, protoTx)]]
    /\ pc' = [pc EXCEPT ![i] = "call"]
    /\ UNCHANGED <<options, timeout, req, net, raw, ret, sent, codec>>

\* Submit, up to its use of call.
Submit(i, txs, witnessSlices) ==
    /\ pc[i] = "idle"
    /\ \E tx \in txs, witnesses \in witnessSlices :
          /\ arg' = [arg EXCEPT ![i] =
                        [op |-> "Submit", tx |-> tx, witnesses |-> witnesses]]
          /\ params' = [params EXCEPT ![i] =
                           [method |-> "trp.submit",
                            value |-> SubmitParams(tx, witnesses)]]
    /\ pc' = [pc EXCEPT ![i] = "call"]
    /\ UNCHANGED <<options, timeout, req, net, raw, ret, sent, codec>>

\* call, up to httpClient.Do: the envelope with a fresh id is marshalled,
\* the request created and its headers set.  A failure ends the invocation.
CallPrepare(i, uuids) ==
    /\ pc[i] = "call"
    /\ \E id \in uuids :
          LET rpcRequest == [JSONRPC |-> "2.0", Method |-> params[i].method,
                             Params |-> params[i].value, ID |-> id]
              reqBody == MarshalJSONRPCRequest(rpcRequest)
          IN  IF reqBody.err # ErrNil
              THEN /\ ret' = [ret EXCEPT ![i] =
                                 Fail(Errorf("failed to marshal request", reqBody.err))]
                   /\ pc' = [pc EXCEPT ![i] = "done"]
                   /\ req' = req
              ELSE IF ~ValidURL(options.Endpoint)
              THEN /\ ret' = [ret EXCEPT ![i] =
                                 Fail(Errorf("failed to create request",
                                             "missing protocol scheme"))]
                   /\ pc' = [pc EXCEPT ![i] = "done"]
                   /\ req' = req
              ELSE /\ \E order \in Orders(DOMAIN options.Headers.m) :
                         req' = [req EXCEPT ![i] =
                                    BuildRequest(options, reqBody.json, order)]
                   /\ pc' = [pc EXCEPT ![i] = "do"]
                   /\ ret' = ret
    /\ UNCHANGED <<options, timeout, arg, params, net, raw, sent, codec>>

\* httpClient.Do sends the request.
CallDo(i) ==
    /\ pc[i] = "do"
    /\ net' = [net EXCEPT ![i] = [state |-> "request", request |-> req[i]]]
    /\ sent' = [sent EXCEPT ![i] = @ + 1]
    /\ pc' = [pc EXCEPT ![i] = "inflight"]
    /\ UNCHANGED <<options, timeout, arg, params, req, raw, ret, codec>>

\* A slip of call: a failed send is tried again.
TransportFailRetries(i, causes) ==
    /\ pc[i] = "inflight"
    /\ sent[i] < 3
    /\ \E cause \in causes :
          net' = [net EXCEPT ![i] = [state |-> "failed", cause |-> cause]]
    /\ pc' = [pc EXCEPT ![i] = "do"]
    /\ UNCHANGED <<options, timeout, arg, params, req, raw, ret, sent, codec>>

\* httpClient.Do fails (no connection, or the client's timeout passed):
\* call and the operation return the error.
TransportFail(i, causes) ==
    /\ pc[i] = "inflight"
    /\ \E cause \in causes :
          /\ net' = [net EXCEPT ![i] = [state |-> "failed", cause |-> cause]]
          /\ ret' = [ret EXCEPT ![i] = Fail(Errorf("failed to send request", cause))]
    /\ pc' = [pc EXCEPT ![i] = "done"]
    /\ UNCHANGED <<options, timeout, arg, params, req, raw, sent, codec>>

\* The server answers the request of caller i.
ServerRespond(i, responses) ==
    /\ pc[i] = "inflight"
    /\ \E r \in responses :
          net' = [net EXCEPT ![i] =
                     [state |-> "response", request |-> net[i].request,
                      response |-> r]]
    /\ pc' = [pc EXCEPT ![i] = "responded"]
    /\ UNCHANGED <<options, timeout, arg, params, req, raw, ret, sent, codec>>

\* A slip of call: the response is kept in a slot all callers share, so a
\* caller may read the response to another caller's request.
CallFinishShared(i) ==
    /\ pc[i] = "responded"
    /\ \E j \in DOMAIN pc :
          /\ net[j].state = "response"
          /\ LET r == CallResult(net[j].response) IN
                IF r.err # NilErr
                THEN /\ ret' = [ret EXCEPT ![i] = Fail(r.err)]
                     /\ pc' = [pc EXCEPT ![i] = "done"]
                     /\ raw' = raw
                ELSE /\ raw' = [raw EXCEPT ![i] = r.result]
                     /\ pc' = [pc EXCEPT ![i] = "result"]
                     /\ ret' = ret
    /\ UNCHANGED <<options, timeout, arg, params, req, net, sent, codec>>

\* call, once Do returned a response: the status check, the body, the
\* JSON-RPC envelope.
CallFinish(i) ==
    /\ pc[i] = "responded"
    /\ LET r == CallResult(net[i].response) IN
          IF r.err # NilErr
          THEN /\ ret' = [ret EXCEPT ![i] = Fail(r.err)]
               /\ pc' = [pc EXCEPT ![i] = "done"]
               /\ raw' = raw
          ELSE /\ raw' = [raw EXCEPT ![i] = r.result]
               /\ pc' = [pc EXCEPT ![i] = "result"]
               /\ ret' = ret
    /\ UNCHANGED <<options, timeout, arg, params, req, net, sent, codec>>

\* Resolve or Submit decodes the raw result and returns.
Decode(i) ==
    /\ pc[i] = "result"
    /\ ret' = [ret EXCEPT ![i] = DecodeResult(arg[i].op, raw[i])]
    /\ pc' = [pc EXCEPT ![i] = "done"]
    /\ UNCHANGED <<options, timeout, arg, params, req, net, raw, sent, codec>>

\* The operation has returned; the caller is free for its next invocation.
Return(i) ==
    /\ pc[i] = "done"
    /\ pc' = [pc EXCEPT ![i] = "idle"]
    /\ arg' = [arg EXCEPT ![i] = NoArg]
    /\ params' = [params EXCEPT ![i] = NoParams]
    /\ req' = [req EXCEPT ![i] = NoReq]
    /\ net' = [net EXCEPT ![i] = NetIdle]
    /\ raw' = [raw EXCEPT ![i] = NilRaw]
    /\ ret' = [ret EXCEPT ![i] = NoRet]
    /\ sent' = [sent EXCEPT ![i] = 0]
    /\ UNCHANGED <<options, timeout, codec>>

----------------------------------------------------------------------------
(* What the callers and the server are drawn from.                          *)

NCallers == 2

MaxWitnesses == 2

Callers == 1..NCallers

SeqsUpTo(S, n) == UNION {[1..k -> S] : k \in 0..n}

UUIDs == {"6f1c0d2e", "a93b77c4"}

FailureCauses == {"connection refused", "Client.Timeout exceeded"}

TirInfos ==
    { [Version |-> "1", Content |-> "deadbeef", Encoding |-> "hex"],
      [Version |-> "2", Content |-> "3q2+7w==", Encoding |-> "base64"] }

ArgValues == {GoStruct([amount |-> 100]), GoNil, GoChan}

ProtoTxRequests == [Tir : TirInfos, Args : ArgValues]

TxEnvelopes == {[Tx |-> "abcd", Hash |-> "1234"], ZeroTxEnvelope}

SubmitWitnessInputs ==
    { [Object |-> NilPtr, Hex |-> "ff00"],
      [Object |-> NilPtr, Hex |-> "00aa"],
      [Object |-> Ptr(VKeyWitness1), Hex |-> ""] }

WitnessSlices ==
    {NilSlice} \cup {SliceOf(e) : e \in SeqsUpTo(SubmitWitnessInputs, MaxWitnesses)}

HeaderMaps ==
    { NilMap,
      MapOf(<<>>),
      MapOf([k \in {"X-Api-Key"} |-> "k1"]),
      MapOf([k \in {"content-type"} |-> "text/plain"]),
      MapOf([k \in {"Content-Type", "X-Api-Key"} |->
                IF k = "Content-Type" THEN "application/json" ELSE "k1"]),
      MapOf([k \in {"X-Api-Key", "x-api-key"} |->
                IF k = "X-Api-Key" THEN "k1" ELSE "k2"]) }

EnvArgMaps ==
    { NilMap,
      MapOf(<<>>),
      MapOf([k \in {"network"} |-> "mainnet"]) }

Endpoints == {"https://trp.example/rpc", ":bad"}

Timeouts == {0, 5}

AllOptions ==
    [Endpoint : Endpoints, Headers : HeaderMaps, EnvArgs : EnvArgMaps,
     Timeout : Timeouts]

\* The error member of a response: an object with code, message and
\* optionally data.
ErrorObject(code, message, data) ==
    IF data = JInvalid
    THEN JObject([code |-> JNumber(code), message |-> JString(message)])
    ELSE JObject([code |-> JNumber(code), message |-> JString(message),
                  data |-> data])

\* A response document with the given result and error members; JInvalid
\* stands for a member that is left out.
Envelope(result, error) ==
    LET base == [jsonrpc |-> JString("2.0"), id |-> JString("6f1c0d2e")]
        names == {"jsonrpc", "id"}
                   \cup (IF result = JInvalid THEN {} ELSE {"result"})
                   \cup (IF error = JInvalid THEN {} ELSE {"error"})
    IN  JObject([k \in names |->
                    IF k = "result" THEN result
                    ELSE IF k = "error" THEN error
                    ELSE base[k]])

ResultDocs ==
    { JInvalid, JNull,
      JObject([tx |-> JString("abcd"), hash |-> JString("1234")]),
      JObject([hash |-> JString("1234")]),
      JObject([tx |-> JNumber(1)]) }

ErrorDocs ==
    { JInvalid, JNull, JString("boom"),
      ErrorObject(-32602, "invalid params", JInvalid),
      ErrorObject(-32000, "invalid params", JInvalid),
      ErrorObject(-32602, "invalid params", JString("missing amount")),
      ErrorObject(-32000, "invalid params", JString("missing amount")),
      ErrorObject(-32000, "unresolvable", JInvalid),
      JObject([code |-> JString("E1"), message |-> JString("invalid params")]) }

PlainText == [kind |-> "invalid", text |-> "internal error"]

Bodies ==
    {Envelope(r, e) : r \in ResultDocs, e \in ErrorDocs}
        \cup {PlainText, JNull, JArray(<<>>),
              JObject([jsonrpc |-> JString("2.0"), id |-> JNumber(1),
                       result |-> JObject([hash |-> JString("1234")])])}

OtherBodies ==
    { PlainText,
      Envelope(JObject([tx |-> JString("abcd"), hash |-> JString("1234")]), JInvalid),
      Envelope(JInvalid, ErrorObject(-32602, "invalid params", JInvalid)) }

Responses ==
    [StatusCode : {StatusOK}, Body : Bodies, ReadErr : {FALSE}]
        \cup [StatusCode : {201, 204, 404, 500}, Body : OtherBodies, ReadErr : {FALSE}]
        \cup [StatusCode : {StatusOK, 500}, Body : {PlainText}, ReadErr : {TRUE}]

\* The smaller draw of the concurrent callers.
FewOptions ==
    { [Endpoint |-> "https://trp.example/rpc",
       Headers |-> MapOf([k \in {"X-Api-Key"} |-> "k1"]),
       EnvArgs |-> MapOf([k \in {"network"} |-> "mainnet"]),
       Timeout |-> 0],
      [Endpoint |-> "https://trp.example/rpc",
       Headers |-> NilMap, EnvArgs |-> NilMap, Timeout |-> 5] }

FewProtoTxRequests ==
    { [Tir |-> [Version |-> "1", Content |-> "deadbeef", Encoding |-> "hex"],
       Args |-> a] : a \in {GoStruct([amount |-> 100]), GoChan} }

FewTxEnvelopes == {[Tx |-> "abcd", Hash |-> "1234"]}

FewWitnessSlices == {SliceOf(<<[Object |-> NilPtr, Hex |-> "ff00"]>>)}

FewUUIDs == {"6f1c0d2e"}

FewCauses == {"connection refused"}

FewResponses ==
    [StatusCode : {StatusOK},
     Body : { Envelope(JObject([tx |-> JString("abcd"), hash |-> JString("1234")]),
                       JInvalid),
              Envelope(JInvalid, ErrorObject(-32602, "invalid params", JInvalid)),
              Envelope(JInvalid, ErrorObject(-32000, "invalid params", JInvalid)) },
     ReadErr : {FALSE}]
        \cup [StatusCode : {500}, Body : {PlainText}, ReadErr : {FALSE}]

----------------------------------------------------------------------------
(* The specifications.                                                      *)

\* NewClient: the timeout of the HTTP client.
NewClientTimeout(opts) ==
    IF opts.Timeout = 0 THEN DefaultTimeout ELSE opts.Timeout

\* NewClient(o) for some o of optionSet; no caller has started.
InitCallers(optionSet) ==
    /\ options \in optionSet
    /\ timeout = NewClientTimeout(options)
    /\ pc = [i \in Callers |-> "idle"]
    /\ arg = [i \in Callers |-> NoArg]
    /\ params = [i \in Callers |-> NoParams]
    /\ req = [i \in Callers |-> NoReq]
    /\ net = [i \in Callers |-> NetIdle]
    /\ raw = [i \in Callers |-> NilRaw]
    /\ ret = [i \in Callers |-> NoRet]
    /\ sent = [i \in Callers |-> 0]

\* One caller, invocation after invocation.
Init == InitCallers(AllOptions) /\ codec = CodecIdle

Next ==
    \E i \in {1} :
        \/ Resolve(i, ProtoTxRequests)
        \/ Submit(i, TxEnvelopes, WitnessSlices)
        \/ CallPrepare(i, UUIDs)
        \/ CallDo(i)
        \/ TransportFail(i, FailureCauses)
        \/ ServerRespond(i, Responses)
        \/ CallFinish(i)
        \/ Decode(i)
        \/ Return(i)

Spec == Init /\ [][Next]_vars

\* Several callers on one Client.
InitConcurrent == InitCallers(FewOptions) /\ codec = CodecIdle

NextConcurrent ==
    \E i \in Callers :
        \/ Resolve(i, FewProtoTxRequests)
        \/ Submit(i, FewTxEnvelopes, FewWitnessSlices)
        \/ CallPrepare(i, FewUUIDs)
        \/ CallDo(i)
        \/ TransportFail(i, FewCauses)
        \/ ServerRespond(i, FewResponses)
        \/ CallFinish(i)
        \/ Decode(i)
        \/ Return(i)

SpecConcurrent == InitConcurrent /\ [][NextConcurrent]_vars

\* The WitnessInput codec.
InitWitness ==
    /\ InitCallers(FewOptions)
    /\ \E w \in WitnessInputs, r \in WitnessInputs :
          codec = [CodecIdle EXCEPT !.wit = w, !.prior = r, !.recv = r]

NextWitness ==
    \/ EncodeWitness
    \/ ReceiveWitness
    \/ DecodeWitness

SpecWitness == InitWitness /\ [][NextWitness]_vars

----------------------------------------------------------------------------
(* The claims.                                                              *)

\* Caller i holds the response to its request.
Responded(i) == pc[i] \in {"responded", "result", "done"} /\ net[i].state = "response"

\* The body of the response caller i holds was read in full under status 200
\* and carries an error member that is a JSON object.
HasErrorObject(i) ==
    /\ Responded(i)
    /\ net[i].response.StatusCode = StatusOK
    /\ ~net[i].response.ReadErr
    /\ net[i].response.Body.kind = "object"
    /\ "error" \in DOMAIN net[i].response.Body.fields
    /\ net[i].response.Body.fields.error.kind = "object"

ErrorMember(i) == net[i].response.Body.fields.error.fields

\* Caller i's operation ended with the protocol error.
EndedWithProtocolError(i) ==
    pc[i] = "done" /\ ret[i].err.type = "*trp.Error"

\* C1: when the response carries an error object, the error returned to the
\* caller preserves its message and its data, and two error objects that
\* differ only in their code give the callers different errors.
C1_ErrorKeepsCodeMessageData ==
    \A i, j \in Callers :
        (HasErrorObject(i) /\ EndedWithProtocolError(i)
            /\ HasErrorObject(j) /\ EndedWithProtocolError(j))
        => /\ JString(ret[i].err.Message) = Member(ErrorMember(i), "message")
           /\ ret[i].err.Data = UnmarshalAny(Member(ErrorMember(i), "data"))
           /\ (Member(ErrorMember(i), "code") # Member(ErrorMember(j), "code")
                 => /\ ret[i].err # ret[j].err
                    /\ ErrorText(ret[i].err) # ErrorText(ret[j].err))

\* Caller i's call returned the transport error of a status check: the
\* status code and the raw body.
EndedWithHTTPError(i) ==
    /\ pc[i] = "done"
    /\ ret[i] = Fail(HTTPError(net[i].response.StatusCode, net[i].response.Body))

\* C2: call returns the transport error carrying status code and raw body
\* exactly when the HTTP status is outside 200..299; under every 2xx status
\* the body is parsed as a JSON-RPC response.
C2_TransportErrorIffNot2xx ==
    \A i \in Callers :
        (Responded(i) /\ pc[i] = "done")
        => (EndedWithHTTPError(i) <=> net[i].response.StatusCode \notin 200..299)

C4_ErrorTakesPrecedence ==
    \A i \in Callers :
        /\ (HasErrorObject(i) /\ pc[i] # "responded"
              /\ UnmarshalJSONRPCResponse(net[i].response.Body).err = ErrNil)
           => /\ pc[i] = "done"
              /\ ret[i].value = NilPtr
              /\ ret[i].err.type = "*trp.Error"
              /\ JString(ret[i].err.Message) = Member(ErrorMember(i), "message")
              /\ ret[i].err.Data = UnmarshalAny(Member(ErrorMember(i), "data"))
        /\ (Responded(i) /\ pc[i] = "result")
           => /\ ~HasErrorObject(i)
              /\ raw[i] = IF /\ net[i].response.Body.kind = "object"
                             /\ "result" \in DOMAIN net[i].response.Body.fields
                          THEN RawOf(net[i].response.Body.fields.result)
                          ELSE NilRaw
        /\ (Responded(i) /\ pc[i] = "done" /\ ret[i].err = NilErr)
           => ~HasErrorObject(i)

C4_Witness ==
    \E i \in Callers :
        /\ HasErrorObject(i)
        /\ "result" \in DOMAIN net[i].response.Body.fields
        /\ net[i].response.Body.fields.result.kind = "object"
        /\ EndedWithProtocolError(i)

\* A WitnessInput with one variant: the object, or the hex string.
OneVariant(w) == w.Object.nil \/ w.Hex = ""

\* C5: decoding the JSON that encoding w produced gives back w, the same
\* variant with the same content, for every w with one variant populated.
C5_WitnessRoundTrip ==
    (codec.stage = "decoded" /\ codec.fromMarshal /\ OneVariant(codec.wit))
    => codec.err = ErrNil /\ codec.recv = codec.wit

C5_Witness ==
    /\ codec.stage = "decoded"
    /\ codec.fromMarshal
    /\ ~codec.wit.Object.nil
    /\ codec.wit.Hex = ""
    /\ codec.prior.Hex # ""
    /\ codec.recv = codec.wit

\* C6: a JSON string decodes to the hex variant with the object cleared and
\* without an object parse; a value that is no string and parses as a
\* witness object decodes to the object variant with the hex cleared; every
\* other value fails, and the receiver is left with one variant.
C6_DecodeByShape ==
    codec.stage = "decoded"
    => IF codec.data.kind = "string"
       THEN /\ codec.err = ErrNil
            /\ codec.recv = [Object |-> NilPtr, Hex |-> codec.data.str]
            /\ ~codec.triedObject
       ELSE IF UnmarshalSubmitWitness(codec.data, ZeroSubmitWitness).err = ErrNil
       THEN /\ codec.err = ErrNil
            /\ ~codec.recv.Object.nil
            /\ codec.recv.Hex = ""
       ELSE /\ codec.err = "data is neither string nor SubmitWitness"
            /\ codec.recv = codec.prior

\* The params member of the request body caller i built.
ParamsSent(i) == req[i].body.fields.params.fields

\* C7: the params of Resolve have no env member when the environment
\* mapping is nil or empty, and env equal to the mapping, as an object, when
\* it has an entry; tir and args are those of the request.
C7_EnvOnlyWhenNonEmpty ==
    \A i \in Callers :
        (arg[i].op = "Resolve" /\ req[i].built)
        => /\ req[i].body.fields.method = JString("trp.resolve")
           /\ "env" \in DOMAIN ParamsSent(i) <=> DOMAIN options.EnvArgs.m # {}
           /\ "env" \in DOMAIN ParamsSent(i)
                 => /\ ParamsSent(i).env.kind = "object"
                    /\ DOMAIN ParamsSent(i).env.fields = DOMAIN options.EnvArgs.m
                    /\ \A k \in DOMAIN options.EnvArgs.m :
                          ParamsSent(i).env.fields[k] = JString(options.EnvArgs.m[k])
           /\ ParamsSent(i).tir =
                 JObject([version |-> JString(arg[i].protoTx.Tir.Version),
                          content |-> JString(arg[i].protoTx.Tir.Content),
                          encoding |-> JString(arg[i].protoTx.Tir.Encoding)])
           /\ arg[i].protoTx.Args = GoNil => ParamsSent(i).args = JNull
           /\ arg[i].protoTx.Args.go = "struct"
                 => /\ ParamsSent(i).args.kind = "object"
                    /\ DOMAIN ParamsSent(i).args.fields = DOMAIN arg[i].protoTx.Args.fields
                    /\ \A k \in DOMAIN arg[i].protoTx.Args.fields :
                          ParamsSent(i).args.fields[k] =
                              JNumber(arg[i].protoTx.Args.fields[k])

C7_Witness ==
    \E i \in Callers :
        /\ arg[i].op = "Resolve"
        /\ req[i].built
        /\ ~options.EnvArgs.nil
        /\ DOMAIN options.EnvArgs.m = {}
        /\ "env" \notin DOMAIN ParamsSent(i)

\* C8: the params of Submit are the envelope {content: tx.Tx, encoding:
\* "hex"} and a JSON array of the witnesses' encodings, as many as given and
\* in the caller's order.
C8_SubmitParamsKeepWitnesses ==
    \A i \in Callers :
        (arg[i].op = "Submit" /\ req[i].built)
        => /\ req[i].body.fields.method = JString("trp.submit")
           /\ ParamsSent(i).tx =
                 JObject([content |-> JString(arg[i].tx.Tx),
                          encoding |-> JString("hex")])
           /\ ParamsSent(i).witnesses.kind = "array"
           /\ Len(ParamsSent(i).witnesses.elems) = Len(arg[i].witnesses.elems)
           /\ \A k \in 1..Len(arg[i].witnesses.elems) :
                 ParamsSent(i).witnesses.elems[k] = MarshalJSON(arg[i].witnesses.elems[k])

\* C9: an invocation issues at most one HTTP request on every path, and none
\* when the envelope cannot be serialized.
C9_SingleAttempt ==
    \A i \in Callers :
        /\ sent[i] <= 1
        /\ (arg[i].op = "Resolve" /\ arg[i].protoTx.Args = GoChan)
              => sent[i] = 0 /\ net[i] = NetIdle /\ pc[i] \in {"call", "done"}
        /\ (pc[i] = "done" /\ ret[i].err.type = "fmt"
              /\ ret[i].err.text = "failed to marshal request")
              => sent[i] = 0

C9_Witness ==
    \E i \in Callers :
        /\ pc[i] = "done"
        /\ net[i].state = "failed"
        /\ sent[i] = 1

\* What Resolve or Submit with arguments a returns when run alone on the
\* client and its request meets the exchange x.
ExpectedReturn(a, x) ==
    LET p == IF a.op = "Resolve"
             THEN ResolveParams(options, a.protoTx)
             ELSE SubmitParams(a.tx, a.witnesses)
        m == MarshalParams(p)
    IN  IF m.err # ErrNil
        THEN Fail(Errorf("failed to marshal request", m.err))
        ELSE IF ~ValidURL(options.Endpoint)
        THEN Fail(Errorf("failed to create request", "missing protocol scheme"))
        ELSE IF x.state = "failed"
        THEN Fail(Errorf("failed to send request", x.cause))
        ELSE LET r == CallResult(x.response) IN
             IF r.err # NilErr THEN Fail(r.err) ELSE DecodeResult(a.op, r.result)

\* C10: concurrent invocations on one Client do not interfere: no step
\* writes the Client's options or timeout, and what an invocation returns is
\* decided by its own arguments and the response to its own request.
C10_NoInterference ==
    /\ [][options' = options /\ timeout' = timeout]_vars
    /\ [](\A i \in Callers : pc[i] = "done" => ret[i] = ExpectedReturn(arg[i], net[i]))

C10_Witness ==
    \E i, j \in Callers :
        /\ i # j
        /\ pc[i] = "done" /\ pc[j] = "responded"
        /\ arg[i].op # arg[j].op
        /\ net[i].state = "response"
        /\ net[i].response # net[j].response

====
